---- MODULE Spec2Model ----
(***************************************************************************)
(* Model of the bootstrap resampler of notebooks/OR_Test_Statistics.ipynb: *)
(*                                                                         *)
(*   def bootstrap_samples(rvs, estimator, bootstrap_number):              *)
(*       n = len(rvs)                                                      *)
(*       return np.array([estimator(np.random.choice(rvs, size=n))         *)
(*                        for _ in range(bootstrap_number)])               *)
(*                                                                         *)
(* One call is unfolded into its steps: entry (n = len(rvs)), one          *)
(* np.random.choice per iteration of the comprehension, one estimator      *)
(* call per iteration, and the final np.array(...) return.  The process    *)
(* global random source np.random is a deterministic generator: its state  *)
(* is the stream of variates its seed fixes (revealed as it is consumed)   *)
(* and the position in that stream.  A caller runs the call once, puts     *)
(* the generator back to the state it had at entry and runs it again.      *)
(***************************************************************************)
EXTENDS Integers, Sequences, FiniteSets, TLC

\* ---------------------------------------------------------------- bounds
MaxN == 2
MaxB == 2
MaxVal == 1
\* significant bits of a float
Precision == 3
StatLen == 3
StatMaxVal == 3
BinLen == 3
BinMaxVal == 5
\* the largest n the slider of the binomial plot is moved to
MaxTrials == 10

Values == 0..MaxVal
\* the variates of the random source: enough of them to reach every index
Raws == 0..(MaxN - 1)
Samples == UNION {[1..len -> Values] : len \in 0..MaxN}
Estimators == {"mean", "inv_count0"}
StatSamples == UNION {[1..len -> 0..StatMaxVal] : len \in 1..StatLen}
BinSamples == UNION {[1..len -> 0..BinMaxVal] : len \in 1..BinLen}
None == "None"

VARIABLES
  rvs,              \* the caller's sample array (a mutable numpy array)
  estimator,        \* the statistic passed in
  bootstrap_number, \* B
  emptyRaises,      \* numpy build: choice raises on an empty population
  rng,              \* np.random: [log: variates fixed so far, pos: consumed]
  pc, n, i, acc,    \* the call's position, n = len(rvs), loop count, list
  idx,              \* the index array of the current np.random.choice call
  trials,           \* the resamples handed to the estimator in this call
  result, error,    \* the array returned / the exception raised
  call,             \* "first" or "second" call of the caller
  entry,            \* the random source's position when the call began
  prev,             \* outcome of the first call
  rvs0,             \* the sample as the caller collected it
  evals,            \* how many times the estimator was called in this call
  g_rvs,            \* the notebook's global name rvs
  dist_k,           \* k of the demonstration loop: iterations done
  current,          \* matplotlib's current axes (plt.gca())
  artists,          \* what has been drawn on each axes
  plotcall,         \* the arguments of the last plotting call
  data,             \* the array handed to plot_hist_dist_discrete
  bins              \* the bin edges it computed last

\* the notebook's state outside a call of bootstrap_samples
outer == <<g_rvs, dist_k, current, artists, plotcall, data, bins>>

vars == <<rvs, estimator, bootstrap_number, emptyRaises, rng, pc, n, i, acc,
          idx, trials, result, error, call, entry, prev, rvs0, evals, outer>>

\* ------------------------------------------------------------ statistics
RECURSIVE Sum(_)
Sum(x) == IF x = <<>> THEN 0 ELSE Head(x) + Sum(Tail(x))

Count0(x) == Cardinality({j \in DOMAIN x : x[j] = 0})

\* a real number num/den; den = 0 stands for nan
Rat(num, den) == [num |-> num, den |-> den]

\* x <= y for two reals with positive denominators
Leq(x, y) == x.num * y.den <= y.num * x.den

\* x - y, exactly
Minus(x, y) == Rat(x.num * y.den - y.num * x.den, x.den * y.den)

\* ------------------------------------------------------- float arithmetic
\* numpy computes in binary floating point, round to nearest, ties to even.
\* The model's floats have Precision significant bits (float64 has 53) and
\* no exponent limit; a float is kept as the fraction num/den in lowest
\* terms, den a power of two.
RECURSIVE Pow2(_)
Pow2(e) == IF e = 0 THEN 1 ELSE 2 * Pow2(e - 1)

RECURSIVE Reduce(_, _)
Reduce(num, den) ==
  IF den > 1 /\ num % 2 = 0 THEN Reduce(num \div 2, den \div 2)
  ELSE Rat(num, den)

\* the significands of the normal floats are the integers of
\* [HalfRadix, Radix)
Radix == Pow2(Precision)

HalfRadix == Pow2(Precision - 1)

\* a / q > 0 scaled into [2^(Precision-1), 2^Precision): <<A, Q, e>> with
\* a / q = (A / Q) * 2^e
RECURSIVE Normal(_, _, _)
Normal(A, Q, e) ==
  IF A >= Radix * Q THEN Normal(A, 2 * Q, e + 1)
  ELSE IF A < HalfRadix * Q THEN Normal(2 * A, Q, e - 1)
  ELSE <<A, Q, e>>

\* the float (A / Q) * 2^e rounds to, A / Q being in
\* [2^(Precision-1), 2^Precision): the nearest integer, a tie to the even one
Nearest(A, Q, e) ==
  LET m0 == A \div Q
      r == A % Q
      m == IF 2 * r > Q \/ (2 * r = Q /\ m0 % 2 = 1) THEN m0 + 1 ELSE m0
  IN IF e >= 0 THEN Rat(m * Pow2(e), 1) ELSE Reduce(m, Pow2(0 - e))

\* the float nearest to a / q, for a > 0 and q > 0.  (Operands are bound as
\* elements of singleton sets throughout, so that each is evaluated once.)
RoundPos(a, q) ==
  CHOOSE v \in {Nearest(nq[1], nq[2], nq[3]) : nq \in {Normal(a, q, 0)}} : TRUE

\* the float nearest to p / q, for q > 0 (no value, nan, for q = 0)
Round(p, q) ==
  IF q = 0 THEN Rat(0, 0)
  ELSE IF p = 0 THEN Rat(0, 1)
  ELSE IF p > 0 THEN RoundPos(p, q)
  ELSE LET v == RoundPos(0 - p, q) IN Rat(0 - v.num, v.den)

FlAdd(x, y) ==
  CHOOSE r \in {Round(u.num * v.den + v.num * u.den, u.den * v.den) :
                  u \in {x}, v \in {y}} : TRUE

FlSub(x, y) ==
  CHOOSE r \in {Round(u.num * v.den - v.num * u.den, u.den * v.den) :
                  u \in {x}, v \in {y}} : TRUE

\* x / m for a count m >= 1
FlDiv(x, m) == CHOOSE r \in {Round(u.num, u.den * m) : u \in {x}} : TRUE

\* the float holding the sample value v
Float(v) == Round(v, 1)

\* np.add.reduce: the elements added up from the left, each sum rounded
RECURSIVE FlSumFrom(_, _, _)
FlSumFrom(s, x, j) ==
  IF j > Len(x) THEN s
  ELSE CHOOSE r \in {FlSumFrom(t, x, j + 1) : t \in {FlAdd(s, Float(x[j]))}} :
         TRUE

\* mutant: the sum instead of the mean (np.sum for np.mean)
FlMean_Sum(x) ==
  IF Len(x) = 0 THEN Rat(0, 1) ELSE FlSumFrom(Float(x[1]), x, 2)

\* np.mean(x): the sum divided by the count; nan for an empty array
FlMean(x) ==
  IF Len(x) = 0 THEN Rat(0, 0) ELSE FlDiv(FlSumFrom(Float(x[1]), x, 2), Len(x))

\* whether estimator(x) raises
Fails(est, x) == est = "inv_count0" /\ Count0(x) = 0

ExceptionOf(est) == IF est = "inv_count0" THEN "ZeroDivisionError" ELSE "none"

\* estimator(x) when it does not raise: np.mean(x), 1 / list(x).count(0),
\* and the demonstration's lambda x: np.mean(x) - rvs.mean(), which reads
\* the global rvs when it is called
Apply(est, x) ==
  CASE est = "mean" -> FlMean(x)
    [] est = "inv_count0" -> Round(1, Count0(x))
    [] est = "centered_mean" ->
         IF Len(x) = 0 \/ Len(g_rvs) = 0 THEN Rat(0, 0)
         ELSE FlSub(FlMean(x), FlMean(g_rvs))

\* ------------------------------------------------------- np.random.choice
\* randint(0, high) from one variate of the source
RandInt(raw, high) == raw % high

\* mutant: one index too few (size - 1 positions)
Indices_Short(pop_size, size, raws) ==
  [j \in 1..(size - 1) |-> RandInt(raws[j], pop_size)]

Remove(seq, k) == SubSeq(seq, 1, k - 1) \o SubSeq(seq, k + 1, Len(seq))

RECURSIVE Permute(_, _)
Permute(left, raws) ==
  IF raws = <<>> \/ left = <<>>
    THEN <<>>
    ELSE LET k == RandInt(Head(raws), Len(left)) + 1
         IN <<left[k]>> \o Permute(Remove(left, k), Tail(raws))

\* mutant: sampling without replacement (replace=False), each position drawn
\* from the indices not drawn yet
Indices_NoReplace(pop_size, size, raws) ==
  Permute([p \in 1..pop_size |-> p - 1], SubSeq(raws, 1, size))

\* idx = randint(0, pop_size, size=size): one index per position, each from
\* its own variate
Indices(pop_size, size, raws) == [j \in 1..size |-> RandInt(raws[j], pop_size)]

\* mutant: the drawn positions themselves instead of the values at them
\* (np.random.choice(n, size=n))
Take_Positions(a, ix) == ix

\* a[idx]: the values at the drawn (0-based) positions
Take(a, ix) == [j \in DOMAIN ix |-> a[ix[j] + 1]]

\* the variates `raws` are what the source yields next: where the stream is
\* already fixed (the generator was put back to an earlier state) they are
\* the logged ones
Yields(raws) ==
  \A j \in DOMAIN raws :
    rng.pos + j <= Len(rng.log) => raws[j] = rng.log[rng.pos + j]

\* mutant: a first draw is thrown away, so that every resample costs the
\* source twice as many variates
Advance_Twice(raws) ==
  LET end == rng.pos + Len(raws)
      len == IF end > Len(rng.log) THEN end ELSE Len(rng.log)
  IN [log |-> [j \in 1..len |->
                 IF j <= Len(rng.log) THEN rng.log[j] ELSE raws[j - rng.pos]],
      pos |-> end + Len(raws)]

\* the source after yielding `raws`
Advance(raws) ==
  LET end == rng.pos + Len(raws)
      len == IF end > Len(rng.log) THEN end ELSE Len(rng.log)
  IN [log |-> [k \in 1..len |->
                 IF k <= Len(rng.log) THEN rng.log[k] ELSE raws[k - rng.pos]],
      pos |-> end]

\* ------------------------------------------------------ bootstrap_samples
\* mutant: range(bootstrap_number - 1)
LoopContinues_OffByOne(k, B) == k < B - 1

\* range(bootstrap_number) has a next element after k iterations
LoopContinues(k, B) == k < B

\* mutant: the newest value first
Accumulate_Prepend(list, v) == <<v>> \o list

\* the comprehension collects the values in iteration order
Accumulate(list, v) == Append(list, v)

\* the figure before anything is plotted
Axes == {"ax1", "ax2"}

NoPlot ==
  /\ current = "ax1"
  /\ artists = [a \in Axes |-> {}]
  /\ plotcall = [fn |-> None]

\* nothing drawn from np.random, no call made, nothing plotted
Fresh ==
  /\ rng = [log |-> <<>>, pos |-> 0]
  /\ n = 0
  /\ i = 0
  /\ acc = <<>>
  /\ idx = <<>>
  /\ trials = <<>>
  /\ result = None
  /\ error = "none"
  /\ call = "first"
  /\ entry = 0
  /\ prev = [pc |-> "idle", result |-> None, error |-> "none"]
  /\ evals = 0
  /\ dist_k = 0
  /\ NoPlot
  /\ bins = <<>>

\* the state before a call with a sample, a statistic and a B of the given
\* sets
Start(samples, estimators, numbers) ==
  /\ rvs \in samples
  /\ rvs0 = rvs
  /\ estimator \in estimators
  /\ bootstrap_number \in numbers
  \* the flag is read for an empty population only
  /\ emptyRaises \in IF rvs = <<>> THEN BOOLEAN ELSE {TRUE}
  /\ pc = "idle"
  /\ g_rvs = rvs
  /\ data = <<>>
  /\ Fresh

Init == Start(Samples, Estimators, -1..MaxB)

\* calls that compute means, on longer samples of a wider range of values
InitStat == Start(StatSamples, {"mean", "centered_mean"}, {1})

\* def bootstrap_samples(rvs, estimator, bootstrap_number): n = len(rvs)
Call ==
  /\ pc = "idle"
  /\ n' = Len(rvs)
  /\ i' = 0
  /\ acc' = <<>>
  /\ idx' = <<>>
  /\ trials' = <<>>
  /\ result' = None
  /\ error' = "none"
  /\ entry' = rng.pos
  /\ pc' = "loop"
  /\ UNCHANGED <<rvs, estimator, bootstrap_number, emptyRaises, rng, call,
                 prev, rvs0, outer>>
  /\ evals' = 0

\* mutant: the draw takes fresh entropy instead of the variates of the
\* seeded source
Draw_Unseeded ==
  /\ pc = "loop"
  /\ i < bootstrap_number
  /\ Len(rvs) > 0
  /\ \E raws \in [1..n -> Raws] :
       /\ rng' = [log |-> SubSeq(rng.log, 1, rng.pos) \o raws,
                  pos |-> rng.pos + n]
       /\ idx' = [j \in 1..n |-> raws[j] % Len(rvs)]
  /\ trials' = Append(trials, [j \in 1..n |-> rvs[idx'[j] + 1]])
  /\ pc' = "eval"
  /\ UNCHANGED <<rvs, estimator, bootstrap_number, emptyRaises, n, i, acc,
                 result, error, call, entry, prev, rvs0, outer>>
  /\ UNCHANGED evals

\* mutant: the resample is written back into the caller's array
\* (rvs[:] = np.random.choice(rvs, size=n))
Draw_InPlace ==
  /\ pc = "loop"
  /\ i < bootstrap_number
  /\ Len(rvs) > 0
  /\ \E raws \in [1..n -> Raws] :
       /\ Yields(raws)
       /\ rng' = Advance(raws)
       /\ idx' = [j \in 1..n |-> raws[j] % Len(rvs)]
  /\ trials' = Append(trials, [j \in 1..n |-> rvs[idx'[j] + 1]])
  /\ rvs' = trials'[Len(trials')]
  /\ pc' = "eval"
  /\ UNCHANGED <<estimator, bootstrap_number, emptyRaises, n, i, acc,
                 result, error, call, entry, prev, rvs0, outer>>
  /\ UNCHANGED evals

\* np.random.choice(rvs, size=n) of one iteration
Draw ==
  /\ pc = "loop"
  /\ LoopContinues(i, bootstrap_number)
  /\ IF Len(rvs) = 0 /\ emptyRaises
       THEN /\ pc' = "raised"
            /\ error' = "ValueError"
            /\ UNCHANGED <<rng, idx, trials>>
       ELSE /\ \E raws \in [1..n -> Raws] :
                 /\ Yields(raws)
                 /\ rng' = Advance(raws)
                 /\ idx' = Indices(Len(rvs), n, raws)
            /\ trials' = Append(trials, Take(rvs, idx'))
            /\ pc' = "eval"
            /\ UNCHANGED error
  /\ UNCHANGED <<rvs, estimator, bootstrap_number, emptyRaises, n, i, acc,
                 result, call, entry, prev, rvs0, outer>>
  /\ UNCHANGED evals

\* mutant: a trial on which the estimator raises is skipped
\* (try: ... except: continue)
Eval_SkipFailed ==
  /\ pc = "eval"
  /\ LET x == trials[Len(trials)] IN
       IF Fails(estimator, x)
         THEN acc' = acc
         ELSE acc' = Append(acc, Apply(estimator, x))
  /\ i' = i + 1
  /\ pc' = "loop"
  /\ UNCHANGED <<rvs, estimator, bootstrap_number, emptyRaises, rng, n, idx,
                 trials, result, error, call, entry, prev, rvs0, outer>>
  /\ evals' = evals + 1

\* mutant: a trial on which the estimator raises is tried again on the same
\* draws (the generator is stepped back and the iteration repeated)
Eval_RetrySameDraws ==
  /\ pc = "eval"
  /\ LET x == trials[Len(trials)] IN
       IF Fails(estimator, x)
         THEN /\ rng' = [rng EXCEPT !.pos = @ - n]
              /\ trials' = SubSeq(trials, 1, Len(trials) - 1)
              /\ UNCHANGED <<acc, i>>
         ELSE /\ acc' = Append(acc, Apply(estimator, x))
              /\ i' = i + 1
              /\ UNCHANGED <<rng, trials>>
  /\ pc' = "loop"
  /\ evals' = evals + 1
  /\ UNCHANGED <<rvs, estimator, bootstrap_number, emptyRaises, n, idx,
                 result, error, call, entry, prev, rvs0, outer>>

\* mutant: when the estimator raises, the generator is put back to the state
\* it had when the call began before the exception leaves the function
Eval_RestoreOnFailure ==
  /\ pc = "eval"
  /\ LET x == trials[Len(trials)] IN
       IF Fails(estimator, x)
         THEN /\ pc' = "raised"
              /\ error' = ExceptionOf(estimator)
              /\ rng' = [rng EXCEPT !.pos = entry]
              /\ UNCHANGED <<acc, i>>
         ELSE /\ acc' = Append(acc, Apply(estimator, x))
              /\ i' = i + 1
              /\ pc' = "loop"
              /\ UNCHANGED <<error, rng>>
  /\ evals' = evals + 1
  /\ UNCHANGED <<rvs, estimator, bootstrap_number, emptyRaises, n, idx,
                 trials, result, call, entry, prev, rvs0, outer>>

\* estimator(<the resample>) of one iteration; an exception leaves the
\* comprehension and the function
Eval ==
  /\ pc = "eval"
  /\ LET x == trials[Len(trials)] IN
       IF Fails(estimator, x)
         THEN /\ pc' = "raised"
              /\ error' = ExceptionOf(estimator)
              /\ UNCHANGED <<acc, i>>
         ELSE /\ acc' = Accumulate(acc, Apply(estimator, x))
              /\ i' = i + 1
              /\ pc' = "loop"
              /\ UNCHANGED error
  /\ UNCHANGED <<rvs, estimator, bootstrap_number, emptyRaises, rng, n, idx,
                 trials, result, call, entry, prev, rvs0, outer>>
  /\ evals' = evals + 1

\* return np.array([...]) once range(bootstrap_number) is exhausted
Return ==
  /\ pc = "loop"
  /\ ~LoopContinues(i, bootstrap_number)
  /\ result' = acc
  /\ pc' = "returned"
  /\ UNCHANGED <<rvs, estimator, bootstrap_number, emptyRaises, rng, n, i,
                 acc, idx, trials, error, call, entry, prev, rvs0, outer>>
  /\ UNCHANGED evals

\* the caller keeps the outcome and puts np.random back to the state it had
\* when the call began (np.random.seed(s) again, or set_state), to call again
Restore ==
  /\ call = "first"
  /\ pc \in {"returned", "raised"}
  /\ prev' = [pc |-> pc, result |-> result, error |-> error]
  /\ rng' = [rng EXCEPT !.pos = entry]
  /\ call' = "second"
  /\ pc' = "idle"
  /\ UNCHANGED <<rvs, estimator, bootstrap_number, emptyRaises, n, i, acc,
                 idx, trials, result, error, entry, rvs0, outer>>
  /\ UNCHANGED evals

\* one call of bootstrap_samples
Next == Call \/ Draw \/ Eval \/ Return

Spec == Init /\ [][Next]_vars

\* the call, the random source put back to its state at entry, the call again
NextReplay == Next \/ Restore

SpecReplay == Init /\ [][NextReplay]_vars

\* one call computing a mean
SpecStat == InitStat /\ [][Next]_vars

\* -------------------------------------------------------- plotting helpers
\* the notebook before the cell runs: the name rvs not bound yet; `arrays`
\* are the arrays the cell may hand to plot_hist_dist_discrete
Notebook(arrays) ==
  /\ data \in arrays
  /\ rvs = <<>>
  /\ rvs0 = <<>>
  /\ g_rvs = <<>>
  /\ estimator = None
  /\ bootstrap_number = 0
  /\ emptyRaises = TRUE
  /\ pc = "demo_top"
  /\ Fresh

InitNotebook == Notebook({<<>>})

\* the arrays of the cell that calls both helpers
PlotData == {<<1>>, <<1, 0, 1>>}

InitPlot == Notebook(PlotData)

InitBins == Notebook(BinSamples)

\* ax = ax if ax else plt.gca()
ResolveAx(ax) == IF ax = None THEN current ELSE ax

\* what plot_hist_dist adds to each axes: ax.hist, ax.plot of the pdf,
\* ax.plot of the mean line, ax.set_title and ax.legend go to ax, plt.text
\* and plt.annotate of the confidence interval to the current axes
HistDistDrawn(ax, title, mean, ci) ==
  [a \in Axes |->
     (IF a = ResolveAx(ax)
        THEN {"hist", "pdf", "legend"}
             \cup (IF mean THEN {"mean"} ELSE {})
             \cup (IF title THEN {"title"} ELSE {})
        ELSE {})
     \cup (IF a = current /\ ci THEN {"ci_text", "ci_arrow"} ELSE {})]

\* the axes whose y-limits plot_hist_dist reads: plt.ylim() is called for
\* the mean line and for the confidence interval
HistDistYlim(mean, ci) == IF mean \/ ci THEN current ELSE None

\* mutant: the histogram and the pmf drawn through ax (ax.hist, ax.plot)
DiscreteDrawn_OnAx(ax, title) ==
  [a \in Axes |->
     IF a = ResolveAx(ax)
       THEN {"hist", "pmf", "legend"} \cup (IF title THEN {"title"} ELSE {})
       ELSE {}]

\* what plot_hist_dist_discrete adds to each axes: plt.hist and plt.plot of
\* the pmf go to the current axes, ax.set_title and ax.legend to ax
DiscreteDrawn(ax, title) ==
  [a \in Axes |->
     (IF a = current THEN {"hist", "pmf"} ELSE {})
     \cup (IF a = ResolveAx(ax)
            THEN {"legend"} \cup (IF title THEN {"title"} ELSE {})
            ELSE {})]

\* the figure after a helper has drawn `drawn`; the helpers leave the
\* current axes as it is
Plotted(fn, ax, title, mean, ci, ylim, drawn) ==
  /\ artists' = [a \in Axes |-> artists[a] \cup drawn[a]]
  /\ plotcall' = [fn |-> fn, ax |-> ResolveAx(ax), cur |-> current,
                  title |-> title, mean |-> mean, ci |-> ci, ylim |-> ylim,
                  drawn |-> drawn]
  /\ UNCHANGED current

\* plt.subplot(...): the axes of that cell of the grid becomes current
Subplot ==
  /\ \E a \in Axes : current' = a
  /\ UNCHANGED <<rvs, estimator, bootstrap_number, emptyRaises, rng, pc, n, i,
                 acc, idx, trials, result, error, call, entry, prev, rvs0,
                 evals, g_rvs, dist_k, artists, plotcall, data, bins>>

\* plot_hist_dist(rvs, dist, title, label, mean, confidence_interval, ax);
\* a confidence interval is passed together with its mean
PlotHistDist ==
  /\ \E ax \in {None} \cup Axes, title \in BOOLEAN, mean \in BOOLEAN,
        ci \in BOOLEAN :
       /\ ci => mean
       /\ Plotted("plot_hist_dist", ax, title, mean, ci,
                  HistDistYlim(mean, ci), HistDistDrawn(ax, title, mean, ci))
  /\ UNCHANGED <<rvs, estimator, bootstrap_number, emptyRaises, rng, pc, n, i,
                 acc, idx, trials, result, error, call, entry, prev, rvs0,
                 evals, g_rvs, dist_k, data, bins>>

\* the floats of S in increasing order
RECURSIVE SortAsc(_)
SortAsc(S) ==
  IF S = {} THEN <<>>
  ELSE LET m == CHOOSE v \in S : \A w \in S : Leq(v, w)
       IN <<m>> \o SortAsc(S \ {m})

\* uniques = np.unique(rvs): the distinct values, sorted
Unique(x) == SortAsc({Float(x[j]) : j \in DOMAIN x})

\* the float .5
Half == Rat(1, 2)

\* mutant: the sums of the adjacent values, not halved
Mids_NotHalved(u) == [j \in 1..(Len(u) - 1) |-> FlAdd(u[j + 1], u[j])]

\* mids = (uniques[1:] + uniques[:-1]) / 2.
Mids(u) == [j \in 1..(Len(u) - 1) |-> FlDiv(FlAdd(u[j + 1], u[j]), 2)]

\* bins = np.hstack([[uniques[0]-.5], mids, [uniques[-1] + .5]])
Bins(u) == <<FlSub(u[1], Half)>> \o Mids(u) \o <<FlAdd(u[Len(u)], Half)>>

\* plot_hist_dist_discrete(rvs, dist, title, label, ax), for a non-empty
\* rvs (uniques[0] raises IndexError for an empty one)
PlotHistDistDiscrete ==
  /\ data # <<>>
  /\ bins' = Bins(Unique(data))
  /\ \E ax \in {None} \cup Axes, title \in BOOLEAN :
       Plotted("plot_hist_dist_discrete", ax, title, FALSE, FALSE, None,
               DiscreteDrawn(ax, title))
  /\ UNCHANGED <<rvs, estimator, bootstrap_number, emptyRaises, rng, pc, n, i,
                 acc, idx, trials, result, error, call, entry, prev, rvs0,
                 evals, g_rvs, dist_k, data>>

NextPlot == Subplot \/ PlotHistDist \/ PlotHistDistDiscrete

\* a cell that selects subplots and calls the helpers
SpecPlot == InitPlot /\ [][NextPlot]_vars

\* a cell that plots an array of numbers with plot_hist_dist_discrete
NextBins == Subplot \/ PlotHistDistDiscrete

SpecBins == InitBins /\ [][NextBins]_vars

\* ------------------------------------------- binom_norm_comparison_plot
\* the positions of the slider p=(0, 1, .1), in tenths
SliderP == 0..10

\* the support of Binomial(n, p): the possible numbers of successes
Support(m) == 0..m

\* mutant: range(n + 1)
Range_Inclusive(m) == 0..m

\* range(n)
Range(m) == 0..(m - 1)

\* binom_norm_comparison_plot(p, n), called by interact with n >= 1: a new
\* figure; in subplot 121 the bars of binom.pmf at range(n), the normal pdf,
\* legend, title and x label; in subplot 122 the bars of binom.cdf at
\* range(n), the normal cdf, title and both labels.  Subplot 122 stays the
\* current axes.
BinomNormComparisonPlot ==
  /\ \E p \in SliderP, m \in 1..MaxTrials :
       plotcall' = [fn |-> "binom_norm_comparison_plot", p |-> p, n |-> m,
                    bars |-> [a \in Axes |-> Range(m)]]
  /\ artists' = [a \in Axes |->
                   IF a = "ax1"
                     THEN {"bar", "curve", "legend", "title", "xlabel"}
                     ELSE {"bar", "curve", "title", "xlabel", "ylabel"}]
  /\ current' = "ax2"
  /\ UNCHANGED <<rvs, estimator, bootstrap_number, emptyRaises, rng, pc, n, i,
                 acc, idx, trials, result, error, call, entry, prev, rvs0,
                 evals, g_rvs, dist_k, data, bins>>

\* the sliders of interact are moved, the plot is drawn anew
SpecBinom == InitNotebook /\ [][BinomNormComparisonPlot]_vars

\* -------------------------------------------------- bootstrap demonstration
\* the sizes of the demonstration, scaled down: the notebook has N = 400,
\* bootstrap_number = 200 and six distributions in dists
N == 2
BootstrapNumber == 2
NumDists == 2

\* a variate taken to a value of the distribution
Quantile(raw) == IF raw <= MaxVal THEN raw ELSE MaxVal

\* plt.subplot(3, 2, k + 1): the axes of cell k + 1 of the grid
AxesOf(k) == IF k % 2 = 0 THEN "ax1" ELSE "ax2"

\* for k, dist in enumerate(dists): plt.subplot(3,2,k+1) and
\* rvs = dist.rvs(size=N), which draws its N variates from np.random too
DemoSample ==
  /\ pc = "demo_top"
  /\ dist_k < NumDists
  /\ current' = AxesOf(dist_k)
  /\ \E raws \in [1..N -> Raws] :
       /\ Yields(raws)
       /\ rng' = Advance(raws)
       /\ g_rvs' = [j \in 1..N |-> Quantile(raws[j])]
  /\ rvs0' = g_rvs'
  /\ pc' = "demo_sampled"
  /\ UNCHANGED <<rvs, estimator, bootstrap_number, emptyRaises, n, i, acc,
                 idx, trials, result, error, call, entry, prev, evals, dist_k,
                 artists, plotcall, data, bins>>

\* mutant: the call is given the array of the call before (the argument is
\* bound once, before the loop)
DemoCall_StaleSample ==
  /\ pc = "demo_sampled"
  /\ rvs' = IF dist_k = 0 THEN g_rvs ELSE rvs
  /\ estimator' = "centered_mean"
  /\ bootstrap_number' = BootstrapNumber
  /\ pc' = "idle"
  /\ UNCHANGED <<emptyRaises, rng, n, i, acc, idx, trials, result, error,
                 call, entry, prev, rvs0, evals, outer>>

\* samples = bootstrap_samples(rvs, estimator=lambda x: np.mean(x) -
\* rvs.mean(), bootstrap_number=bootstrap_number): the arguments are bound
DemoCall ==
  /\ pc = "demo_sampled"
  /\ rvs' = g_rvs
  /\ estimator' = "centered_mean"
  /\ bootstrap_number' = BootstrapNumber
  /\ pc' = "idle"
  /\ UNCHANGED <<emptyRaises, rng, n, i, acc, idx, trials, result, error,
                 call, entry, prev, rvs0, evals, outer>>

\* plot_hist_dist(samples, norm, title=dist.dist.name), and the loop goes on
DemoPlot ==
  /\ pc = "returned"
  /\ Plotted("plot_hist_dist", None, TRUE, FALSE, FALSE,
             HistDistYlim(FALSE, FALSE),
             HistDistDrawn(None, TRUE, FALSE, FALSE))
  /\ dist_k' = dist_k + 1
  /\ pc' = "demo_top"
  /\ UNCHANGED <<rvs, estimator, bootstrap_number, emptyRaises, rng, n, i,
                 acc, idx, trials, result, error, call, entry, prev, rvs0,
                 evals, g_rvs, data, bins>>

NextDemo ==
  DemoSample \/ DemoCall \/ Call \/ Draw \/ Eval \/ Return \/ DemoPlot

\* the cell of the bootstrap demonstration
SpecDemo == InitNotebook /\ [][NextDemo]_vars

TypeOK ==
  /\ rvs \in Samples
  /\ pc \in {"idle", "loop", "eval", "returned", "raised"}
  /\ call \in {"first", "second"}
  /\ rng.pos <= Len(rng.log)
  /\ i \in 0..MaxB
  /\ Len(acc) = i

\* ------------------------------------------------------------------ claims
Ended == pc \in {"returned", "raised"}

ValidArgs == Len(rvs0) >= 1 /\ bootstrap_number >= 1

NoTrialFails == \A k \in DOMAIN trials : ~Fails(estimator, trials[k])

\* C1: a call with a non-empty sample and B >= 1 in which the statistic does
\* not fail ends by returning an array of exactly B elements.
C1_ReturnsBReplicates ==
  (Ended /\ ValidArgs /\ NoTrialFails) =>
    (pc = "returned" /\ result # None /\ Len(result) = bootstrap_number)

C1_Witness ==
  /\ pc = "returned"
  /\ Len(rvs0) = MaxN
  /\ bootstrap_number = MaxB
  /\ Len(result) = MaxB

\* C2: in every trial of a call on a sample of length n >= 1, the resample
\* handed to the statistic has exactly n elements.
C2_ResampleHasSampleLength ==
  Len(rvs0) >= 1 =>
    /\ \A k \in DOMAIN trials : Len(trials[k]) = Len(rvs0)
    /\ pc = "eval" => Len(trials) = i + 1

C2_Witness ==
  /\ pc = "eval"
  /\ Len(rvs0) = MaxN
  /\ Len(trials) = MaxB

\* C3: every element of every resample handed to the statistic is a value
\* that occurs in the original sample.
C3_ResampleValuesFromSample ==
  \A k \in DOMAIN trials :
    \A j \in DOMAIN trials[k] :
      \E m \in DOMAIN rvs0 : rvs0[m] = trials[k][j]

C3_Witness ==
  /\ pc = "eval"
  /\ Len(trials) = MaxB
  /\ \A m \in DOMAIN rvs0 : rvs0[m] = MaxVal
  /\ Len(rvs0) = MaxN

\* C4: in every trial, whatever was drawn before, each of the n^n sequences
\* of indices over [0, n) can be the one np.random.choice draws next: the
\* positions are drawn independently and with replacement.
C4_EveryIndexSequencePossible ==
  (pc = "loop" /\ LoopContinues(i, bootstrap_number) /\ Len(rvs0) >= 1) =>
    \A s \in [1..Len(rvs0) -> 0..(Len(rvs0) - 1)] : ENABLED (Draw /\ idx' = s)

\* a resample in which one observation appears twice and another not at all,
\* in the last trial of a call
C4_Witness ==
  /\ pc = "eval"
  /\ Len(trials) = MaxB
  /\ Len(idx) >= 2
  /\ idx[1] = idx[2]

\* C5: a second call that starts from the state the random source had when
\* the first call began, with the same sample, statistic and B, ends as the
\* first call did: the same array, values and order, or the same exception.
C5_SameSourceStateSameResult ==
  (call = "second" /\ Ended) =>
    (pc = prev.pc /\ result = prev.result /\ error = prev.error)

C5_Witness ==
  /\ call = "second"
  /\ pc = "returned"
  /\ Len(result) = MaxB
  /\ result[1] # result[2]

\* C6: the caller's sample is never changed, during a call and after it has
\* returned or raised: same length, same values, same order.
C6_SampleNotMutated == rvs = rvs0

C6_Witness ==
  /\ pc = "raised"
  /\ Len(trials) = MaxB
  /\ Len(rvs0) = MaxN
  /\ rvs0[1] # rvs0[MaxN]

\* C7: a call with an empty sample raises an invalid-argument error
\* (ValueError), for every B and statistic: nothing is returned and the
\* statistic is never evaluated.
C7_EmptySampleRaises ==
  rvs0 = <<>> =>
    /\ pc # "returned"
    /\ pc # "eval"
    /\ pc = "raised" => error = "ValueError"

\* C8: a call with B <= 0 raises an invalid-argument error (ValueError) for
\* every sample; it never returns an empty array.
C8_NonPositiveBRaises ==
  (bootstrap_number <= 0 /\ Ended) => (pc = "raised" /\ error = "ValueError")

\* C9: a trial on which the statistic raises is the last thing the call
\* does: the call raises that exception, returns nothing (no partial array),
\* and neither skips the trial nor draws another resample after it.
C9_StatisticFailurePropagates ==
  /\ \A k \in DOMAIN trials :
       Fails(estimator, trials[k]) =>
         /\ k = Len(trials)
         /\ pc \in {"eval", "raised"}
         /\ pc = "raised" => error = ExceptionOf(estimator)
  /\ pc = "raised" => result = None

\* the statistic raised on the last trial after the earlier ones succeeded
C9_Witness ==
  /\ pc = "raised"
  /\ error = "ZeroDivisionError"
  /\ Len(trials) = MaxB
  /\ Len(acc) = MaxB - 1

\* the variates of the k-th block of n consecutive draws since the call began
Block(k) == [j \in 1..n |-> rng.log[entry + (k - 1) * n + j]]

\* C10: the returned array is in generation order: its k-th element is the
\* statistic of the k-th resample, built from the k-th block of n consecutive
\* draws of the random source since the call began, for every k in 1..B.
C10_GenerationOrder ==
  (pc = "returned" /\ ValidArgs) =>
    /\ Len(result) = bootstrap_number
    /\ \A k \in 1..bootstrap_number :
         result[k] =
           Apply(estimator,
                 [j \in 1..Len(rvs0) |->
                    rvs0[RandInt(Block(k)[j], Len(rvs0)) + 1]])

C10_Witness ==
  /\ pc = "returned"
  /\ Len(rvs0) = MaxN
  /\ Len(result) = MaxB
  /\ result[1] # result[MaxB]

\* C11: the call advances no random state other than a source handed to it
\* by the caller; in particular the process-global generator np.random is in
\* the state it had when the call began.
C11_GlobalRandomStateUntouched == pc # "idle" => rng.pos = entry

ConstantSample == Len(rvs0) >= 1 /\ \A m \in DOMAIN rvs0 : rvs0[m] = rvs0[1]

\* C13: for a sample whose values are all the same, every replicate equals
\* the statistic applied to the sample itself (n copies of the constant),
\* whatever B and whatever the random source yields.
C13_ConstantSampleConstantReplicates ==
  ConstantSample =>
    /\ \A t \in DOMAIN acc : acc[t] = Apply(estimator, rvs0)
    /\ pc = "returned" =>
         \A t \in DOMAIN result : result[t] = Apply(estimator, rvs0)

C13_Witness ==
  /\ pc = "returned"
  /\ ConstantSample
  /\ Len(rvs0) = MaxN
  /\ rvs0[1] = MaxVal
  /\ Len(result) = MaxB
  /\ estimator = "mean"

\* the steps a call can still take: two per outstanding iteration, entry and
\* return
Measure ==
  LET B == IF bootstrap_number > 0 THEN bootstrap_number ELSE 0
  IN CASE pc = "idle" -> 2 * B + 3
       [] pc = "loop" -> 2 * (B - i) + 1
       [] pc = "eval" -> 2 * (B - i)
       [] OTHER -> 0

\* C14: a call always ends: until it has returned or raised it has a next
\* step, and every step lowers a natural number that starts at 2B + 3, so
\* there is no waiting and no retry.
C14_Terminates ==
  /\ [](Ended \/ ENABLED Next)
  /\ [](Measure >= 0)
  /\ [][Measure' < Measure]_vars

C14_Witness ==
  /\ pc = "raised"
  /\ bootstrap_number = MaxB
  /\ Len(rvs0) = MaxN
  /\ evals = 1

\* the estimator raised on the resample of this trial
EstimatorRaised == pc = "raised" /\ Len(trials) >= 1 /\ error # "ValueError"

\* C18: draws and evaluations alternate: a resample of n values is drawn,
\* then the estimator is called on it once, before the next is drawn.  A call
\* with B >= 1 on n >= 1 values that returns has called the estimator exactly
\* B times and advanced the random source by exactly B * n index draws.
C18_DrawThenEvaluate ==
  pc # "idle" =>
    /\ rng.pos = entry + n * Len(trials)
    /\ Len(trials) = evals + (IF pc = "eval" THEN 1 ELSE 0)
    /\ (pc = "returned" /\ ValidArgs) =>
         /\ evals = bootstrap_number
         /\ Len(trials) = bootstrap_number
         /\ rng.pos = entry + bootstrap_number * Len(rvs0)

C18_Witness ==
  /\ pc = "returned"
  /\ Len(rvs0) = MaxN
  /\ bootstrap_number = MaxB
  /\ evals = MaxB
  /\ rng.pos = entry + MaxB * MaxN

\* C19: when the estimator raises on trial k, no later trial is run: the
\* estimator has been called exactly k times, k - 1 values were collected,
\* and the random source is left k * n draws past the state it had at entry
\* (it is not put back), so that a call made next without reseeding starts
\* at other draws of the stream.
C19_FailureLeavesSourceAdvanced ==
  EstimatorRaised =>
    /\ Fails(estimator, trials[Len(trials)])
    /\ \A t \in 1..(Len(trials) - 1) : ~Fails(estimator, trials[t])
    /\ evals = Len(trials)
    /\ Len(acc) = Len(trials) - 1
    /\ Len(trials) <= bootstrap_number
    /\ rng.pos = entry + Len(trials) * Len(rvs0)
    /\ Len(rvs0) >= 1 => rng.pos # entry

C19_Witness ==
  /\ EstimatorRaised
  /\ Len(trials) = MaxB
  /\ Len(rvs0) = MaxN
  /\ rng.pos = entry + MaxB * MaxN

\* C12: the trials share no mutable state: a trial reads the sample and
\* writes its own output value only, so its draw leaves every state that
\* another trial reads, the position of the random source included, as it
\* found it (and the trials could run in any order with the same result).
C12_TrialsShareNoState ==
  [][(pc = "loop" /\ pc' = "eval") => rng'.pos = rng.pos]_vars

MinOf(x) == CHOOSE v \in {x[j] : j \in DOMAIN x} : \A j \in DOMAIN x : v <= x[j]

MaxOf(x) == CHOOSE v \in {x[j] : j \in DOMAIN x} : \A j \in DOMAIN x : v >= x[j]

\* the floating-point sum of x is its sum: no addition was rounded, or the
\* roundings cancelled
SumIsExact(x) == FlSumFrom(Float(x[1]), x, 2) = Rat(Sum(x), 1)

DrawnOn(c) == {a \in Axes : c.drawn[a] # {}}

\* the artifacts a plotting call drew on axes other than a
DrawnOff(c, a) == UNION {c.drawn[b] : b \in Axes \ {a}}

\* what C17 says of plot_hist_dist: histogram, pdf curve, mean line, title
\* and legend on ax and nowhere else; the y-limits read from, and the CI text
\* and arrow added to, the current axes and nowhere else
HistDistAsDescribed(c) ==
  /\ {"hist", "pdf", "legend"} \subseteq c.drawn[c.ax]
  /\ c.mean => "mean" \in c.drawn[c.ax]
  /\ c.title => "title" \in c.drawn[c.ax]
  /\ DrawnOff(c, c.ax) \cap {"hist", "pdf", "mean", "title", "legend"} = {}
  /\ (c.mean \/ c.ci) => c.ylim = c.cur
  /\ c.ci => {"ci_text", "ci_arrow"} \subseteq c.drawn[c.cur]
  /\ DrawnOff(c, c.cur) \cap {"ci_text", "ci_arrow"} = {}

\* what C17 says of plot_hist_dist_discrete: histogram and pmf on the
\* current axes, only the title and the legend on ax
DiscreteAsDescribed(c) ==
  /\ {"hist", "pmf"} \subseteq c.drawn[c.cur]
  /\ DrawnOff(c, c.cur) \cap {"hist", "pmf"} = {}
  /\ "legend" \in c.drawn[c.ax]
  /\ c.title => "title" \in c.drawn[c.ax]
  /\ DrawnOff(c, c.ax) \cap {"title", "legend"} = {}
  /\ c.ax # c.cur => c.drawn[c.ax] \subseteq {"title", "legend"}

HelperAsDescribed(c) ==
  IF c.fn = "plot_hist_dist" THEN HistDistAsDescribed(c)
  ELSE DiscreteAsDescribed(c)

\* C17 as stated: each helper puts its artifacts on ax and on the current
\* axes as described, and the artifacts of a call land on one axes only when
\* ax is the current axes.
C17_OneAxesOnlyWhenAxIsCurrent ==
  plotcall.fn # None =>
    /\ HelperAsDescribed(plotcall)
    /\ Cardinality(DrawnOn(plotcall)) = 1 => plotcall.ax = plotcall.cur

\* C17 as amended: each helper puts its artifacts on ax and on the current
\* axes as described; the artifacts of a call land on one axes only when
\* ax is the current axes or the call is a plot_hist_dist without a
\* confidence interval (which puts everything on ax, whatever the current
\* axes is).
C17_OneAxesWhenCurrentOrNoInterval ==
  plotcall.fn # None =>
    /\ HelperAsDescribed(plotcall)
    /\ Cardinality(DrawnOn(plotcall)) = 1 =>
         \/ plotcall.ax = plotcall.cur
         \/ plotcall.fn = "plot_hist_dist" /\ ~plotcall.ci

\* a plot_hist_dist with a mean, an interval and a title, on an axes that is
\* not the current one: its artifacts are on two axes
C17_Witness ==
  /\ plotcall.fn # None
  /\ plotcall.fn = "plot_hist_dist"
  /\ plotcall.ax # plotcall.cur
  /\ plotcall.ci /\ plotcall.mean /\ plotcall.title
  /\ Cardinality(DrawnOn(plotcall)) = 2
  /\ artists[plotcall.cur] = {"ci_text", "ci_arrow"}

\* the arguments of the demonstration's call are bound / the call has begun
DemoCalled == pc \in {"idle", "loop", "eval", "returned"}

DemoRunning == pc \in {"loop", "eval", "returned"}

\* C16: in the demonstration loop every call of bootstrap_samples resamples
\* the sample drawn in the same iteration, every trial's estimator subtracts
\* the mean of that sample from the mean of the resample (the list of
\* replicates changes only by being emptied at entry or by gaining that
\* difference for the newest resample), and the global rvs is reassigned at
\* the top of the loop only, never while a call is running.
C16_DemoResamplesItsOwnSample ==
  /\ [](DemoCalled => rvs = rvs0 /\ g_rvs = rvs0 /\ Len(rvs0) = N)
  /\ [](DemoRunning =>
          /\ \A t \in DOMAIN trials :
               /\ Len(trials[t]) = N
               /\ \A j \in DOMAIN trials[t] :
                    \E m \in DOMAIN rvs0 : trials[t][j] = rvs0[m]
          /\ Len(acc) <= Len(trials))
  /\ [][acc' # acc =>
          \/ acc' = <<>>
          \/ acc' = Append(acc, FlSub(FlMean(trials[Len(trials)]),
                                      FlMean(rvs0)))]_vars
  /\ [][g_rvs' # g_rvs => pc = "demo_top" /\ pc' = "demo_sampled"]_vars

\* the second iteration's call has returned, its sample is not the first
\* iteration's and its replicates differ
C16_Witness ==
  /\ pc = "returned"
  /\ dist_k = 1
  /\ artists["ax1"] # {}
  /\ Len(result) = BootstrapNumber
  /\ result[1] # result[2]
  /\ rvs0 # [j \in 1..N |-> Quantile(rng.log[j])]

\* x < y for two reals with positive denominators
Less(x, y) == x.num * y.den < y.num * x.den

\* x and y are the same real
Same(x, y) == x.num * y.den = y.num * x.den

\* x + y, exactly
Plus(x, y) == Rat(x.num * y.den + y.num * x.den, x.den * y.den)

\* half of x, exactly
HalfOf(x) == Rat(x.num, 2 * x.den)

\* the distinct values of u that the histogram counts in bin j of edges e:
\* the bins are closed on the left and open on the right, the last one
\* closed on both sides
InBin(u, e, j) ==
  {m \in DOMAIN u :
     /\ Leq(e[j], u[m])
     /\ IF j = Len(e) - 1 THEN Leq(u[m], e[j + 1]) ELSE Less(u[m], e[j + 1])}

\* u + 1 strictly increasing edges, the outer ones half a unit off the
\* smallest and the largest value, the inner ones the midpoints, and one
\* distinct value in each bin, strictly inside it
EdgesAsDescribed(u, e) ==
  /\ Len(e) = Len(u) + 1
  /\ \A j \in 1..(Len(e) - 1) : Less(e[j], e[j + 1])
  /\ Same(e[1], Minus(u[1], Half))
  /\ Same(e[Len(e)], Plus(u[Len(u)], Half))
  /\ \A j \in 1..(Len(u) - 1) : Same(e[j + 1], HalfOf(Plus(u[j], u[j + 1])))
  /\ \A j \in 1..(Len(e) - 1) :
       /\ InBin(u, e, j) = {j}
       /\ Less(e[j], u[j]) /\ Less(u[j], e[j + 1])

\* no rounding in uniques[0] - .5, in uniques[-1] + .5 and in the sums of
\* adjacent distinct values
EdgesExact(u) ==
  /\ Same(FlSub(u[1], Half), Minus(u[1], Half))
  /\ Same(FlAdd(u[Len(u)], Half), Plus(u[Len(u)], Half))
  /\ \A j \in 1..(Len(u) - 1) : Same(FlAdd(u[j + 1], u[j]), Plus(u[j], u[j + 1]))

\* C21 as stated: for every non-empty rvs with u distinct values the helper
\* builds u + 1 strictly increasing bin edges (smallest - 0.5, the midpoints
\* of adjacent distinct values, largest + 0.5), and every bin contains
\* exactly one distinct value, strictly inside.
C21_OneValuePerBin == bins # <<>> => EdgesAsDescribed(Unique(data), bins)

\* C21 as amended: the same for every non-empty rvs for which the helper's
\* subtraction of .5, addition of .5 and sums of adjacent distinct values
\* are exact in floating point.
C21_OneValuePerBinWhenExact ==
  (bins # <<>> /\ EdgesExact(Unique(data))) =>
    EdgesAsDescribed(Unique(data), bins)

\* edges computed exactly for an array of the longest length in which a
\* value is repeated, one of the edges a whole number
C21_Witness ==
  /\ bins # <<>>
  /\ EdgesExact(Unique(data))
  /\ Len(data) = BinLen
  /\ Len(bins) = BinLen
  /\ \E j \in 1..(Len(bins) - 1) : bins[j].den = 1
  /\ plotcall.fn = "plot_hist_dist_discrete"

\* C22: binom_norm_comparison_plot draws the bars of the binomial pmf and
\* cdf at the success counts 0..n-1 only: the outcome k = n, which is in the
\* support of Binomial(n, p), has no bar in either panel.
C22_AllSuccessesNeverPlotted ==
  plotcall.fn = "binom_norm_comparison_plot" =>
    \A a \in Axes :
      /\ "bar" \in artists[a]
      /\ plotcall.bars[a] = {k \in Support(plotcall.n) : k < plotcall.n}
      /\ plotcall.n \in Support(plotcall.n)
      /\ plotcall.n \notin plotcall.bars[a]

C22_Witness ==
  /\ plotcall.fn = "binom_norm_comparison_plot"
  /\ plotcall.n = MaxTrials
  /\ plotcall.p = 9
  /\ current = "ax2"
  /\ (MaxTrials - 1) \in plotcall.bars["ax1"]
  /\ (MaxTrials - 1) \in plotcall.bars["ax2"]

====
